---- MODULE Spec2Model ----
(***************************************************************************)
(* botogram/callbacks.py: the signed callback-data codec, the lazy inline  *)
(* keyboard and the callback dispatcher.                                   *)
(*                                                                         *)
(* A str is a sequence of Unicode code points, a bytes object a sequence   *)
(* of integers 0..255.  Optional values (None) are records                 *)
(* [isNone, v].  Results of calls that may raise are records with a        *)
(* "kind" field naming the exception class ("ok" when none is raised).     *)
(***************************************************************************)
EXTENDS Integers, Sequences, FiniteSets, TLC

VARIABLES issued, ret, rows, renders, chains, processed

vars == <<issued, ret, rows, renders, chains, processed>>

-----------------------------------------------------------------------------
(* Program constants *)

\* DIGEST_LEN = 16
DIGEST_LEN == 16

\* .digest()[:8]
NAME_LEN == 8

\* len(raw) < 32, raw[:32], raw[32:]
PRELUDE_LEN == 32

\* len(data) > 32
MAX_DATA_LEN == 32

-----------------------------------------------------------------------------
(* Bounds of the model *)

\* tokens handed out by get_callback_data that the model remembers
MaxIssued == 1

\* cells appended to a keyboard
MaxCells == 2

\* hooks registered in chains["callbacks"]
MaxHooks == 3

-----------------------------------------------------------------------------
(* Python values *)

None == [isNone |-> TRUE, v |-> <<>>]

Some(s) == [isNone |-> FALSE, v |-> s]

\* a function on 1..n as a sequence value
AsSeq(f) == <<>> \o f

\* c * n for a one-character string c
Repeat(c, n) == AsSeq([i \in 1..n |-> c])

Indices(s) == AsSeq([i \in 1..Len(s) |-> i])

\* str(n) for an int n
RECURSIVE Digits(_)
Digits(n) == IF n < 10 THEN <<48 + n>> ELSE Digits(n \div 10) \o <<48 + (n % 10)>>

IntStr(n) == IF n < 0 THEN <<45>> \o Digits(0 - n) ELSE Digits(n)

-----------------------------------------------------------------------------
(* str.encode("utf-8") and bytes.decode("utf-8") *)

IsSurrogate(cp) == cp >= 55296 /\ cp <= 57343

EncodeCodePoint(cp) ==
    IF cp < 128 THEN <<cp>>
    ELSE IF cp < 2048 THEN <<192 + (cp \div 64), 128 + (cp % 64)>>
    ELSE IF cp < 65536
         THEN <<224 + (cp \div 4096), 128 + ((cp \div 64) % 64), 128 + (cp % 64)>>
    ELSE <<240 + (cp \div 262144), 128 + ((cp \div 4096) % 64),
           128 + ((cp \div 64) % 64), 128 + (cp % 64)>>

\* the bytes of every code point laid out in four slots each, -1 in the unused ones
Slots(s) ==
    AsSeq([j \in 1..(4 * Len(s)) |->
        LET e == EncodeCodePoint(s[((j - 1) \div 4) + 1])
            k == ((j - 1) % 4) + 1
        IN  IF k <= Len(e) THEN e[k] ELSE -1])

IsByte(x) == x >= 0

\* [kind, bytes]: UnicodeEncodeError on a lone surrogate
encode_utf8(s) ==
    IF \E i \in 1..Len(s) : IsSurrogate(s[i])
    THEN [kind |-> "UnicodeEncodeError", bytes |-> <<>>]
    ELSE [kind |-> "ok", bytes |-> SelectSeq(Slots(s), IsByte)]

IsCont(b, i) == i <= Len(b) /\ b[i] >= 128 /\ b[i] <= 191

InRange(b, i, lo, hi) == i <= Len(b) /\ b[i] >= lo /\ b[i] <= hi

\* length of the well-formed UTF-8 sequence starting at b[i], 0 when ill-formed
SeqLenAt(b, i) ==
    LET c == b[i] IN
    IF c < 128 THEN 1
    ELSE IF c >= 194 /\ c <= 223 THEN (IF IsCont(b, i + 1) THEN 2 ELSE 0)
    ELSE IF c = 224 THEN (IF InRange(b, i + 1, 160, 191) /\ IsCont(b, i + 2) THEN 3 ELSE 0)
    ELSE IF c = 237 THEN (IF InRange(b, i + 1, 128, 159) /\ IsCont(b, i + 2) THEN 3 ELSE 0)
    ELSE IF c >= 225 /\ c <= 239 THEN (IF IsCont(b, i + 1) /\ IsCont(b, i + 2) THEN 3 ELSE 0)
    ELSE IF c = 240
         THEN (IF InRange(b, i + 1, 144, 191) /\ IsCont(b, i + 2) /\ IsCont(b, i + 3)
               THEN 4 ELSE 0)
    ELSE IF c = 244
         THEN (IF InRange(b, i + 1, 128, 143) /\ IsCont(b, i + 2) /\ IsCont(b, i + 3)
               THEN 4 ELSE 0)
    ELSE IF c >= 241 /\ c <= 243
         THEN (IF IsCont(b, i + 1) /\ IsCont(b, i + 2) /\ IsCont(b, i + 3) THEN 4 ELSE 0)
    ELSE 0

CodePointAt(b, i, n) ==
    IF n = 1 THEN b[i]
    ELSE IF n = 2 THEN (b[i] - 192) * 64 + (b[i + 1] - 128)
    ELSE IF n = 3 THEN (b[i] - 224) * 4096 + (b[i + 1] - 128) * 64 + (b[i + 2] - 128)
    ELSE (b[i] - 240) * 262144 + (b[i + 1] - 128) * 4096
         + (b[i + 2] - 128) * 64 + (b[i + 3] - 128)

\* [kind, str]: UnicodeDecodeError on ill-formed bytes.  The bytes are well formed
\* when every byte that is no continuation byte starts a well-formed sequence
\* reaching exactly to the next such byte
decode_utf8(b) ==
    LET NotCont(i) == ~IsCont(b, i)
        starts == SelectSeq(Indices(b), NotCont)
        EndOf(k) == IF k < Len(starts) THEN starts[k + 1] ELSE Len(b) + 1
        wellFormed ==
            /\ b # <<>> => NotCont(1)
            /\ \A k \in 1..Len(starts) :
                  SeqLenAt(b, starts[k]) = EndOf(k) - starts[k]
    IN  IF ~wellFormed THEN [kind |-> "UnicodeDecodeError", str |-> <<>>]
        ELSE [kind |-> "ok",
              str |-> AsSeq([k \in 1..Len(starts) |->
                          CodePointAt(b, starts[k], EndOf(k) - starts[k])])]

-----------------------------------------------------------------------------
(* base64.b64encode and base64.b64decode (validate=False) *)

\* the character of a 6-bit value
B64Char(v) ==
    IF v < 26 THEN 65 + v
    ELSE IF v < 52 THEN 97 + (v - 26)
    ELSE IF v < 62 THEN 48 + (v - 52)
    ELSE IF v = 62 THEN 43 ELSE 47

\* the 6-bit value of a character, 64 when it is outside the alphabet
B64Val(ch) ==
    IF ch >= 65 /\ ch <= 90 THEN ch - 65
    ELSE IF ch >= 97 /\ ch <= 122 THEN ch - 97 + 26
    ELSE IF ch >= 48 /\ ch <= 57 THEN ch - 48 + 52
    ELSE IF ch = 43 THEN 62
    ELSE IF ch = 47 THEN 63
    ELSE 64

\* the j-th character (0-based position p in its quad) of the encoding of b
B64CharAt(b, j) ==
    LET g == 3 * ((j - 1) \div 4)
        p == (j - 1) % 4
        At(i) == IF g + i <= Len(b) THEN b[g + i] ELSE 0
    IN  IF p = 0 THEN B64Char(At(1) \div 4)
        ELSE IF p = 1 THEN B64Char((At(1) % 4) * 16 + (At(2) \div 16))
        ELSE IF p = 2
             THEN (IF g + 2 <= Len(b) THEN B64Char((At(2) % 16) * 4 + (At(3) \div 64)) ELSE 61)
        ELSE (IF g + 3 <= Len(b) THEN B64Char(At(3) % 64) ELSE 61)

b64encode(b) == AsSeq([j \in 1..(4 * ((Len(b) + 2) \div 3)) |-> B64CharAt(b, j)])

\* binascii.a2b_base64 without strict mode.  Characters outside the alphabet are
\* skipped.  A pad character met with two or three characters of a quad read
\* ends the input once the pads seen since the last character complete the quad;
\* any other pad is skipped.  Input ending inside a quad is an error.
IsB64OrPad(ch) == ch = 61 \/ B64Val(ch) < 64

IsB64(ch) == B64Val(ch) < 64

b64decode(d) ==
    LET kept == SelectSeq(d, IsB64OrPad)
        \* characters of the alphabet among the first j kept ones
        Read(j) == Cardinality({i \in 1..j : kept[i] # 61})
        \* pads in a row ending at j
        PadRun(j) == Cardinality({i \in 1..j : \A m \in i..j : kept[m] = 61})
        Ends(j) ==
            /\ kept[j] = 61
            /\ Read(j) % 4 >= 2
            /\ (Read(j) % 4) + PadRun(j) >= 4
        stops == {j \in 1..Len(kept) : Ends(j)}
        stop == IF stops = {} THEN Len(kept) + 1
                ELSE CHOOSE j \in stops : \A m \in stops : j <= m
        vals == SelectSeq(SubSeq(kept, 1, stop - 1), IsB64)
        v(i) == B64Val(vals[i])
        ByteAt(k) ==
            LET g == 4 * ((k - 1) \div 3)
                r == (k - 1) % 3
            IN  IF r = 0 THEN v(g + 1) * 4 + (v(g + 2) \div 16)
                ELSE IF r = 1 THEN (v(g + 2) % 16) * 16 + (v(g + 3) \div 4)
                ELSE (v(g + 3) % 4) * 64 + v(g + 4)
    IN  IF stops = {} /\ Len(vals) % 4 # 0
        THEN [kind |-> "binascii.Error", bytes |-> <<>>]
        ELSE [kind |-> "ok",
              bytes |-> AsSeq([k \in 1..((Len(vals) * 6) \div 8) |-> ByteAt(k)])]

-----------------------------------------------------------------------------
(* crypto: the keyed hash and the comparison *)

\* the bot, as far as this module reads it: its secret key
Bot == [key |-> 4242]

\* the polynomial sum of (m[i] + 1) * w^(hi - i) over lo..hi modulo p, with w^(hi - lo + 1)
RECURSIVE Poly(_, _, _, _, _)
Poly(m, lo, hi, w, p) ==
    IF lo = hi THEN [v |-> (m[lo] + 1) % p, w |-> w]
    ELSE LET mid == (lo + hi) \div 2
             l == Poly(m, lo, mid, w, p)
             r == Poly(m, mid + 1, hi, w, p)
         IN  [v |-> (l.v * r.w + r.v) % p, w |-> (l.w * r.w) % p]

Keyed(key, m, w, p) ==
    IF m = <<>> THEN key % p
    ELSE LET h == Poly(m, 1, Len(m), w, p) IN (((key % p) * h.w) + h.v) % p

\* crypto.get_hmac(bot, data): a keyed digest of DIGEST_LEN bytes
get_hmac(bot, data) ==
    LET h1 == Keyed(bot.key, data, 263, 46337)
        h2 == Keyed(bot.key + Len(data), data, 521, 46327)
    IN  AsSeq([i \in 1..DIGEST_LEN |->
            IF i = 1 THEN h1 % 256
            ELSE IF i = 2 THEN h1 \div 256
            ELSE IF i = 3 THEN h2 % 256
            ELSE IF i = 4 THEN h2 \div 256
            ELSE (h1 * i + h2 * (i + 7) + i) % 256])

\* crypto.compare(a, b)
compare(a, b) == a = b

-----------------------------------------------------------------------------
(* hashlib.md5 on the callback names of the model *)

\* the component "s"
Component == <<115>>

\* the callback "a"
CbPlain == <<97>>

\* "v35": the hashed name of "s:v35" ends with a zero byte and "5"
CbZero7 == <<118, 51, 53>>

\* "ep38": the hashed name of "s:ep38" ends with a zero byte and "31"
CbZero6 == <<101, 112, 51, 56>>

\* "isjmt": the hashed name of "s:isjmt" ends with zero, "5", zero, 0x80
CbZero5 == <<105, 115, 106, 109, 116>>

Callbacks == {CbPlain, CbZero7, CbZero6, CbZero5}

\* "%s:%s" % (component_name, callback)
FormatName(component, callback) == component \o <<58>> \o callback

\* DIGEST(b).digest(): MD5 of "s:a", "s:v35", "s:ep38", "s:isjmt"
DIGEST(b) ==
    IF b = <<115, 58, 97>>
    THEN <<142, 203, 101, 32, 95, 141, 136, 95, 220, 245, 44, 2, 153, 167, 176, 250>>
    ELSE IF b = <<115, 58, 118, 51, 53>>
    THEN <<20, 146, 60, 250, 83, 95, 0, 53, 238, 147, 247, 145, 169, 209, 128, 255>>
    ELSE IF b = <<115, 58, 101, 112, 51, 56>>
    THEN <<213, 92, 156, 182, 52, 0, 51, 49, 232, 252, 214, 173, 175, 223, 17, 50>>
    ELSE <<14, 39, 219, 90, 0, 53, 0, 128, 162, 175, 118, 241, 41, 136, 169, 142>>

\* hashed_callback_name(name)
hashed_callback_name(name) == SubSeq(DIGEST(encode_utf8(name).bytes), 1, NAME_LEN)

-----------------------------------------------------------------------------
(* The token codec *)

Min(a, b) == IF a < b THEN a ELSE b

\* b[lo:hi] of Python, 0-based, clipped to the length
Slice(b, lo, hi) ==
    IF lo >= Min(hi, Len(b)) THEN <<>> ELSE SubSeq(b, lo + 1, Min(hi, Len(b)))

\* str(chat.id).encode("utf-8")
chat_id(chat) == encode_utf8(IntStr(chat.id)).bytes

\* name + b'\0' + chat_id + b'\0' + data
signed_message(chat, name, data) == name \o <<0>> \o chat_id(chat) \o <<0>> \o data

get_signature_nochat(bot, chat, name, data) == get_hmac(bot, name \o <<0>> \o data)

\* get_signature(bot, chat, name, data)
get_signature(bot, chat, name, data) == get_hmac(bot, signed_message(chat, name, data))

too_big_at_32(data) == Len(data) >= MAX_DATA_LEN

\* len(data) > 32
too_big(data) == Len(data) > MAX_DATA_LEN

\* get_callback_data(bot, chat, name, data=None): [kind, token]
get_callback_data(bot, chat, name, data) ==
    LET hname == hashed_callback_name(name)
        enc == encode_utf8(IF data.isNone THEN <<>> ELSE data.v)
    IN  IF enc.kind # "ok" THEN [kind |-> enc.kind, token |-> <<>>]
        ELSE IF too_big(enc.bytes) THEN [kind |-> "ValueError", token |-> <<>>]
        ELSE LET signature == get_signature(bot, chat, hname, enc.bytes)
             IN  [kind |-> "ok",
                  token |-> decode_utf8(b64encode(signature \o hname) \o enc.bytes).str]

Raise(kind) == [kind |-> kind, name |-> <<>>, data |-> None]

Return(name, data) == [kind |-> "ok", name |-> name, data |-> data]

\* len(raw) < 32, raw being the encoded bytes
too_short(b) == Len(b) < PRELUDE_LEN

data_of_skip(b) == Slice(b, PRELUDE_LEN + 1, Len(b))

\* data = raw[32:]
data_of(b) == Slice(b, PRELUDE_LEN, Len(b))

\* data.decode("utf-8") if data else None, for data that decodes
payload_of(data) == IF data # <<>> THEN Some(decode_utf8(data).str) ELSE None

\* parse_callback_data(bot, chat, raw): [kind, name, data]
parse_callback_data(bot, chat, raw) ==
    LET enc == encode_utf8(raw) IN
    IF enc.kind # "ok" THEN Raise(enc.kind)
    ELSE IF too_short(enc.bytes) THEN Raise("TamperedMessageError")
    ELSE LET dec == b64decode(Slice(enc.bytes, 0, PRELUDE_LEN)) IN
         IF dec.kind # "ok" THEN Raise("TamperedMessageError")
         ELSE LET prelude == dec.bytes
                  signature == Slice(prelude, 0, DIGEST_LEN)
                  name == Slice(prelude, DIGEST_LEN, Len(prelude))
                  data == data_of(enc.bytes)
                  correct == get_signature(bot, chat, name, data)
              IN  IF ~compare(correct, signature) THEN Raise("TamperedMessageError")
                  ELSE IF data # <<>> /\ decode_utf8(data).kind # "ok"
                       THEN Raise(decode_utf8(data).kind)
                  ELSE Return(name, payload_of(data))

-----------------------------------------------------------------------------
(* Inputs of the codec *)

Chats == {[id |-> 5], [id |-> 31]}

\* 10 * U+20AC and U+00E9: 32 bytes in 11 characters
Payload32 == Repeat(8364, 10) \o <<233>>

\* 11 * U+20AC: 33 bytes in 11 characters
Payload33 == Repeat(8364, 11)

Payloads == {None, Some(<<>>), Some(Payload32), Some(Payload33)}

\* what the holder of a token sees of it
Prelude(t) == Slice(t, 0, PRELUDE_LEN)

Tail32(t) == Slice(t, PRELUDE_LEN, Len(t))

\* t with the lowest bit of one character flipped
FlipAt(t, pos) ==
    [t EXCEPT ![pos] = IF t[pos] % 2 = 0 THEN t[pos] + 1 ELSE t[pos] - 1]

\* a character of the signature, of the hashed name, of the payload
FlipPositions == {1, 30, 33}

\* b after its first zero byte
RECURSIVE AfterFirstZero(_)
AfterFirstZero(b) ==
    IF b = <<>> THEN <<>> ELSE IF Head(b) = 0 THEN Tail(b) ELSE AfterFirstZero(Tail(b))

\* bytes b64decode discards: none, U+1F600, "!!!" and the lead byte of U+0080
Junks == {<<>>, <<240, 159, 152, 128>>, <<33, 33, 33, 194>>}

\* the prelude of a token re-encoded with its hashed name cut to k bytes
RebindPrelude(i, k) ==
    b64encode(Slice(b64decode(encode_utf8(Prelude(i.token)).bytes).bytes, 0, DIGEST_LEN + k))

\* the cut prelude, filled up to 32 bytes with characters base64 skips, and
\* followed by what the signed message holds after the first zero byte past the cut
Rebind(i, k, junk) ==
    LET rest == Slice(i.name, k + 1, NAME_LEN) \o <<0>> \o chat_id(i.chat) \o <<0>>
                \o encode_utf8(IF i.data.isNone THEN <<>> ELSE i.data.v).bytes
    IN  RebindPrelude(i, k) \o junk \o AfterFirstZero(rest)

Rebinds(i) ==
    {decode_utf8(Rebind(i, x[1], x[2])).str : x \in
        {y \in {4, 5, 6} \X Junks :
            /\ Len(RebindPrelude(i, y[1])) + Len(y[2]) = PRELUDE_LEN
            /\ decode_utf8(Rebind(i, y[1], y[2])).kind = "ok"}}

\* strings made without a token: empty, 31 characters of 2 bytes each, 32
\* characters outside the base64 alphabet, a base64 quad left incomplete
FixedRaws ==
    { <<>>,
      Repeat(233, 31),
      Repeat(33, 32),
      Repeat(65, 29) \o <<33, 33, 33>> }

\* the strings a sender can build from one token
RawsFrom(i) ==
    {i.token, Prelude(i.token), Slice(i.token, 0, PRELUDE_LEN - 1)}
    \cup {FlipAt(i.token, pos) : pos \in {p \in FlipPositions : p <= Len(i.token)}}
    \cup Rebinds(i)

-----------------------------------------------------------------------------
(* The calls of the model, evaluated once *)

\* a table is a set of <<argument, result>> pairs
Lookup(table, x) == (CHOOSE p \in table : p[1] = x)[2]

EncodeInputs == Chats \X Callbacks \X Payloads

\* get_callback_data on every input of the model
Encoded ==
    {<<x, get_callback_data(Bot, x[1], FormatName(Component, x[2]), x[3])>> :
        x \in EncodeInputs}

\* what is known of a token handed out: the call that made it and the token
Issue(chat, callback, data) ==
    [chat |-> chat, name |-> hashed_callback_name(FormatName(Component, callback)),
     data |-> data, token |-> Lookup(Encoded, <<chat, callback, data>>).token]

Issuable ==
    {Issue(x[1], x[2], x[3]) : x \in {y \in EncodeInputs : Lookup(Encoded, y).kind = "ok"}}

Derived == {<<i, RawsFrom(i)>> : i \in Issuable}

\* the strings a sender can build from the tokens handed out so far
Raws(tokens) ==
    FixedRaws
    \cup UNION {Lookup(Derived, i) : i \in tokens}
    \cup {Prelude(x[1].token) \o Tail32(x[2].token) : x \in tokens \X tokens}

AllRaws == Raws(Issuable)

\* parse_callback_data on every input of the model
Parsed == {<<x, parse_callback_data(Bot, x[1], x[2])>> : x \in Chats \X AllRaws}

-----------------------------------------------------------------------------
(* The inline keyboard *)

\* a dict value: a plain value, or the closure generate_callback_data
Static(v) == [callable |-> FALSE, value |-> v, callback |-> <<>>, data |-> None]

Closure(callback, data) ==
    [callable |-> TRUE, value |-> <<>>, callback |-> callback, data |-> data]

\* ctx(): the bot, the chat and the component of the update being processed
Ctx(chat) == [bot |-> Bot, chat |-> chat, component |-> Component]

\* generate_callback_data(): [kind, token]
generate_callback_data(closure, c) ==
    Lookup(Encoded, <<c.chat, closure.callback, closure.data>>)

\* {"text": label, "url": url}
UrlItem(label, url) == [text |-> Static(label), url |-> Static(url)]

\* {"text": label, "callback_data": generate_callback_data}
CallbackItem(label, callback, data) ==
    [text |-> Static(label), callback_data |-> Closure(callback, data)]

\* {"text": label, "switch_inline_query[_current_chat]": query}
SwitchItem(label, query, current_chat) ==
    IF current_chat
    THEN [text |-> Static(label), switch_inline_query_current_chat |-> Static(query)]
    ELSE [text |-> Static(label), switch_inline_query |-> Static(query)]

\* value() for a callable value of the item, the value itself otherwise: [kind, token]
value_of(v, c) ==
    IF v.callable THEN generate_callback_data(v, c)
    ELSE [kind |-> "ok", token |-> v.value]

\* new = item.copy(); new[key] = value() for every callable: [kind, cell]
copy_of(values) ==
    IF \E k \in DOMAIN values : values[k].kind # "ok"
    THEN [kind |-> values[CHOOSE k \in DOMAIN values : values[k].kind # "ok"].kind,
          cell |-> <<>>]
    ELSE [kind |-> "ok", cell |-> [k \in DOMAIN values |-> values[k].token]]

yielded(item, c) == copy_of([k \in DOMAIN item |-> value_of(item[k], c)])

\* the first that raised of a sequence of results, 0 when none did
FirstRaise(results) ==
    IF \A j \in 1..Len(results) : results[j].kind = "ok" THEN 0
    ELSE CHOOSE j \in 1..Len(results) :
            /\ results[j].kind # "ok"
            /\ \A m \in 1..(j - 1) : results[m].kind = "ok"

\* list(...) of the cells yielded: [kind, cells]
listed(results) ==
    IF FirstRaise(results) # 0
    THEN [kind |-> results[FirstRaise(results)].kind, cells |-> <<>>]
    ELSE [kind |-> "ok", cells |-> AsSeq([j \in 1..Len(results) |-> results[j].cell])]

\* list(row._get_content())
get_content(content, c) ==
    listed(AsSeq([j \in 1..Len(content) |-> yielded(content[j], c)]))

in_insertion_order(items) == items

\* sorted(tuple(self._rows.items()), key=lambda i: i[0])
sorted_items(items) ==
    AsSeq([k \in 1..Len(items) |->
        items[CHOOSE i \in 1..Len(items) :
                 Cardinality({j \in 1..Len(items) : items[j].index < items[i].index}) = k - 1]])

\* {"inline_keyboard": rows}, and the row indexes in the order the rows were written
keyboard_of(ordered, got) ==
    IF FirstRaise(got) # 0
    THEN [kind |-> got[FirstRaise(got)].kind, inline_keyboard |-> <<>>, keys |-> <<>>]
    ELSE [kind |-> "ok",
          inline_keyboard |-> AsSeq([k \in 1..Len(got) |-> got[k].cells]),
          keys |-> AsSeq([k \in 1..Len(ordered) |-> ordered[k].index])]

rows_of(ordered, c) ==
    keyboard_of(ordered, AsSeq([k \in 1..Len(ordered) |-> get_content(ordered[k].content, c)]))

\* Buttons._serialize_attachment()
serialize_attachment(items, c) == rows_of(sorted_items(items), c)

kept_resolved(item, c) ==
    [k \in DOMAIN item |->
        IF item[k].callable THEN Static(Lookup(Encoded, <<c.chat, item[k].callback, item[k].data>>).token)
        ELSE item[k]]

\* the item left in self._content once it has been yielded: only the copy was changed
kept(item, c) == item

\* self._rows once serialization has iterated the rows
after_serialize(items, c) ==
    AsSeq([r \in 1..Len(items) |->
        [index |-> items[r].index,
         content |-> AsSeq([j \in 1..Len(items[r].content) |->
                        kept(items[r].content[j], c)])]])

\* the callback_data strings of a serialized keyboard
tokens_of(r) ==
    {r.inline_keyboard[x[1]][x[2]].callback_data :
        x \in {y \in (1..Len(r.inline_keyboard)) \X (1..MaxCells + 1) :
                  /\ y[2] <= Len(r.inline_keyboard[y[1]])
                  /\ "callback_data" \in DOMAIN r.inline_keyboard[y[1]][y[2]]}}

\* Buttons.__getitem__(index) on the dict items, kept in insertion order
getitem(items, index) ==
    IF \E r \in 1..Len(items) : items[r].index = index THEN items
    ELSE Append(items, [index |-> index, content |-> <<>>])

\* self._content.append(item) on the row of that index
append_item(items, index, item) ==
    LET present == getitem(items, index) IN
    AsSeq([r \in 1..Len(present) |->
        IF present[r].index = index
        THEN [present[r] EXCEPT !.content = Append(@, item)]
        ELSE present[r]])

-----------------------------------------------------------------------------
(* Inputs of the keyboard *)

RowIndices == {0, 2, 5}

Label == <<76>>

Target == <<117>>

Query == <<113>>

KeyboardCallbacks == {CbPlain}

KeyboardPayloads == {Some(Payload32), Some(Payload33)}

CountCells(items) == Cardinality({x \in (1..Len(items)) \X (1..MaxCells + 1) :
                                     x[2] <= Len(items[x[1]].content)})

-----------------------------------------------------------------------------
(* The dispatcher *)

handled_if_truthy(result) == result \in {"True", "1"}

\* result is True
handled(result) == result = "True"

\* the hooks process calls, in order: up to the first that handled the update
hooks_called(hooks) ==
    LET stops == {j \in 1..Len(hooks) : handled(hooks[j].result)} IN
    IF stops = {} THEN Len(hooks) ELSE CHOOSE j \in stops : \A m \in stops : j <= m

Debug(msg, hook) == [level |-> "debug", msg |-> msg, hook |-> hook]

\* the hook loop of process, and its log
call_hooks(hooks, n, name, data) ==
    [calls |-> AsSeq([j \in 1..n |-> [hook |-> j, name |-> name, data |-> data]]),
     outcome |-> "returned",
     log |-> AsSeq([j \in 1..n |-> Debug("processing", j)])
             \o (IF n > 0 /\ handled(hooks[n].result)
                 THEN <<Debug("processed", n)>>
                 ELSE <<Debug("unclaimed", 0)>>)]

\* process once parse_callback_data has returned or raised
after_parse(hooks, r) ==
    IF r.kind = "TamperedMessageError"
    THEN [parse |-> r.kind, calls |-> <<>>, outcome |-> "returned",
          log |-> <<[level |-> "warn", msg |-> "tampered", hook |-> 0]>>]
    ELSE IF r.kind # "ok"
    THEN [parse |-> r.kind, calls |-> <<>>, outcome |-> r.kind, log |-> <<>>]
    ELSE [parse |-> r.kind] @@ call_hooks(hooks, hooks_called(hooks), r.name, r.data)

\* process(bot, chains, update): the hooks called, the log written and how it ended
process(bot, hooks, chat, raw) == after_parse(hooks, Lookup(Parsed, <<chat, raw>>))

-----------------------------------------------------------------------------
(* Inputs of the dispatcher *)

\* what hook.call returns
HookResults == {"True", "False", "None", "1"}

\* the tokens of two buttons shown in chat 31, and what a sender builds from them
UpdateRaws ==
    FixedRaws
    \cup UNION {Lookup(Derived, i) : i \in
                   {i \in Issuable : i.chat.id = 31 /\ i.data = None
                                     /\ i.name \in {hashed_callback_name(
                                                       FormatName(Component, cb)) :
                                                    cb \in {CbPlain, CbZero5}}}}

-----------------------------------------------------------------------------
(* State *)

NoCall == [op |-> "none"]

Init ==
    /\ issued = {}
    /\ ret = NoCall
    /\ rows = <<>>
    /\ renders = {}
    /\ chains = <<>>
    /\ processed = NoCall

\* a call of get_callback_data
Encode(chat, callback, data) ==
    LET r == Lookup(Encoded, <<chat, callback, data>>) IN
    /\ r.kind = "ok" => Cardinality(issued \cup {Issue(chat, callback, data)}) <= MaxIssued
    /\ ret' = [op |-> "get_callback_data", chat |-> chat,
               name |-> FormatName(Component, callback),
               data |-> data, kind |-> r.kind, token |-> r.token]
    /\ issued' = IF r.kind = "ok" THEN issued \cup {Issue(chat, callback, data)} ELSE issued
    /\ UNCHANGED <<rows, renders, chains, processed>>

\* a call of parse_callback_data
Parse(chat, raw) ==
    LET r == Lookup(Parsed, <<chat, raw>>) IN
    /\ ret' = [op |-> "parse_callback_data", chat |-> chat, raw |-> raw,
               kind |-> r.kind, name |-> r.name, data |-> r.data]
    /\ UNCHANGED <<issued, rows, renders, chains, processed>>

NextCodec ==
    \/ \E chat \in Chats, callback \in Callbacks, data \in Payloads :
          Encode(chat, callback, data)
    \/ \E chat \in Chats, raw \in Raws(issued) : Parse(chat, raw)

SpecCodec == Init /\ [][NextCodec]_vars

\* buttons[index]
GetItem(index) ==
    /\ rows' = getitem(rows, index)
    /\ ret' = [op |-> "__getitem__", kind |-> "ok"]
    /\ UNCHANGED <<issued, renders, chains, processed>>

\* buttons[index].url(label, url)
Url(index) ==
    /\ CountCells(rows) < MaxCells
    /\ rows' = append_item(rows, index, UrlItem(Label, Target))
    /\ ret' = [op |-> "url", kind |-> "ok"]
    /\ UNCHANGED <<issued, renders, chains, processed>>

\* buttons[index].callback(label, callback, data)
Callback(index, callback, data) ==
    /\ CountCells(rows) < MaxCells
    /\ rows' = append_item(rows, index, CallbackItem(Label, callback, data))
    /\ ret' = [op |-> "callback", callback |-> callback, data |-> data, kind |-> "ok"]
    /\ UNCHANGED <<issued, renders, chains, processed>>

\* buttons[index].switch_inline_query(label, query, current_chat)
SwitchInlineQuery(index, current_chat) ==
    /\ CountCells(rows) < MaxCells
    /\ rows' = append_item(rows, index, SwitchItem(Label, Query, current_chat))
    /\ ret' = [op |-> "switch_inline_query", kind |-> "ok"]
    /\ UNCHANGED <<issued, renders, chains, processed>>

\* buttons._serialize_attachment() while an update of that chat is processed
Serialize(chat) ==
    /\ \E r \in {serialize_attachment(rows, Ctx(chat))} :
          ret' = [op |-> "_serialize_attachment", chat |-> chat, kind |-> r.kind,
                  inline_keyboard |-> r.inline_keyboard, keys |-> r.keys,
                  before |-> rows]
    /\ rows' = after_serialize(rows, Ctx(chat))
    /\ renders' = renders \cup {[chat |-> chat, token |-> t] :
                                    t \in tokens_of(serialize_attachment(rows, Ctx(chat)))}
    /\ UNCHANGED <<issued, chains, processed>>

NextKeyboard ==
    \/ \E index \in RowIndices : GetItem(index)
    \/ \E index \in RowIndices : Url(index)
    \/ \E index \in RowIndices, callback \in KeyboardCallbacks, data \in KeyboardPayloads :
          Callback(index, callback, data)
    \/ \E index \in RowIndices, current_chat \in BOOLEAN :
          SwitchInlineQuery(index, current_chat)
    \/ \E chat \in Chats : Serialize(chat)

SpecKeyboard == Init /\ [][NextKeyboard]_vars

\* a hook is appended to chains["callbacks"]
Register(result) ==
    /\ Len(chains) < MaxHooks
    /\ chains' = Append(chains, [name |-> Len(chains) + 1, result |-> result])
    /\ UNCHANGED <<issued, ret, rows, renders, processed>>

\* process(bot, chains, update) for an update of that chat carrying that data
Process(chat, raw) ==
    /\ \E p \in {process(Bot, chains, chat, raw)} :
          processed' = [op |-> "process", chat |-> chat, raw |-> raw,
                        hooks |-> chains, parse |-> p.parse, calls |-> p.calls, log |-> p.log,
                        outcome |-> p.outcome]
    /\ UNCHANGED <<issued, ret, rows, renders, chains>>

NextDispatch ==
    \/ \E result \in HookResults : Register(result)
    \/ \E chat \in Chats, raw \in UpdateRaws : Process(chat, raw)

SpecDispatch == Init /\ [][NextDispatch]_vars

-----------------------------------------------------------------------------
(* Properties of the token codec, under SpecCodec *)

\* no payload and the empty payload are the same payload
Absent(data) == data.isNone \/ data.v = <<>>

SamePayload(a, b) == (Absent(a) /\ Absent(b)) \/ a = b

\* the tokens handed out that the last parse_callback_data was given unchanged
Presented == {i \in issued : ret.op = "parse_callback_data" /\ i.token = ret.raw}

\* C1: whatever parse_callback_data accepts in a chat was handed out by
\* get_callback_data for that chat, with that hashed name and that payload.
C1_Authenticity ==
    (ret.op = "parse_callback_data" /\ ret.kind = "ok") =>
        \E i \in issued : /\ i.chat = ret.chat
                          /\ i.name = ret.name
                          /\ SamePayload(i.data, ret.data)

\* C2 as stated: a token decoded in the chat it was made for gives back the
\* hashed name and the very payload it was made with, the empty one included.
C2_RoundTripAsStated ==
    \A i \in Presented :
        i.chat = ret.chat =>
            ret.kind = "ok" /\ ret.name = i.name /\ ret.data = i.data

\* C2: a token decoded in the chat it was made for gives back the hashed name
\* and the payload it was made with when that payload has 1 to 32 bytes, and
\* no payload when it was made with the empty payload or with none.
C2_RoundTrip ==
    \A i \in Presented :
        i.chat = ret.chat =>
            /\ ret.kind = "ok"
            /\ ret.name = i.name
            /\ ret.data = IF Absent(i.data) THEN None ELSE i.data

C2_Witness ==
    \E i \in Presented :
        /\ i.chat = ret.chat
        /\ i.data = Some(Payload32)
        /\ ret.kind = "ok"
        /\ ret.data = Some(Payload32)

\* C3: a token decoded in a chat other than the one it was made for raises
\* TamperedMessageError.
C3_ChatBinding ==
    \A i \in Presented :
        i.chat.id # ret.chat.id => ret.kind = "TamperedMessageError"

C3_Witness ==
    \E i \in Presented :
        /\ i.chat.id # ret.chat.id
        /\ i.data = Some(Payload32)
        /\ ret.kind = "TamperedMessageError"

\* C4: parse_callback_data returns a pair or raises TamperedMessageError,
\* never another error.
C4_UniformError ==
    ret.op = "parse_callback_data" => ret.kind \in {"ok", "TamperedMessageError"}

\* C5: parse_callback_data raises TamperedMessageError for every string of 31
\* characters or fewer.
C5_MinimumLength ==
    (ret.op = "parse_callback_data" /\ Len(ret.raw) <= 31) =>
        ret.kind = "TamperedMessageError"

-----------------------------------------------------------------------------
(* Properties of the keyboard, under SpecKeyboard *)

Serialized == ret.op = "_serialize_attachment"

\* the positions <<row, cell>> of the items of a keyboard
Positions(items) ==
    {x \in (1..Len(items)) \X (1..MaxCells + 1) : x[2] <= Len(items[x[1]].content)}

ItemAt(items, x) == items[x[1]].content[x[2]]

\* the content of the row of that index
RowOf(items, index) ==
    items[CHOOSE r \in 1..Len(items) : items[r].index = index].content

IsCallbackItem(item) == "callback_data" \in DOMAIN item

\* the UTF-8 length of the payload a callback cell was built with
PayloadBytes(item) ==
    IF item.callback_data.data.isNone THEN 0
    ELSE Len(encode_utf8(item.callback_data.data.v).bytes)

\* C6: callback appends its cell whatever the payload size; serialization
\* raises ValueError exactly when a callback cell's payload is longer than 32
\* bytes, and then gives no keyboard and no token.
C6_PayloadSize ==
    /\ ret.op = "callback" =>
          /\ ret.kind = "ok"
          /\ \E r \in 1..Len(rows) :
                /\ rows[r].content # <<>>
                /\ rows[r].content[Len(rows[r].content)]
                      = CallbackItem(Label, ret.callback, ret.data)
    /\ Serialized =>
          /\ ret.kind \in {"ok", "ValueError"}
          /\ ret.kind = "ValueError" <=>
                \E x \in Positions(ret.before) :
                    /\ IsCallbackItem(ItemAt(ret.before, x))
                    /\ PayloadBytes(ItemAt(ret.before, x)) > 32
          /\ ret.kind = "ValueError" =>
                ret.inline_keyboard = <<>> /\ rows = ret.before

C6_Witness ==
    /\ Serialized
    /\ ret.kind = "ValueError"
    /\ \E x, y \in Positions(ret.before) :
          /\ IsCallbackItem(ItemAt(ret.before, x))
          /\ IsCallbackItem(ItemAt(ret.before, y))
          /\ PayloadBytes(ItemAt(ret.before, x)) = 32
          /\ PayloadBytes(ItemAt(ret.before, y)) = 33

\* C7: a serialized keyboard holds one row for each index accessed, in
\* ascending order of index whatever the order of access, and in each row
\* the cells in the order they were appended.
C7_Ordering ==
    (Serialized /\ ret.kind = "ok") =>
        /\ Len(ret.inline_keyboard) = Len(ret.before)
        /\ Len(ret.keys) = Len(ret.before)
        /\ \A k \in 1..(Len(ret.keys) - 1) : ret.keys[k] < ret.keys[k + 1]
        /\ {ret.keys[k] : k \in 1..Len(ret.keys)}
              = {ret.before[r].index : r \in 1..Len(ret.before)}
        /\ \A k \in 1..Len(ret.keys) :
              LET content == RowOf(ret.before, ret.keys[k])
                  cells == ret.inline_keyboard[k]
              IN  /\ Len(cells) = Len(content)
                  /\ \A j \in 1..Len(content) :
                        /\ DOMAIN cells[j] = DOMAIN content[j]
                        /\ \A key \in DOMAIN content[j] :
                              ~content[j][key].callable =>
                                  cells[j][key] = content[j][key].value

C7_Witness ==
    /\ Serialized
    /\ ret.kind = "ok"
    /\ Len(ret.before) = 3
    /\ ret.before[1].index = 5
    /\ ret.before[2].index = 0
    /\ \E r \in 1..3 :
          /\ Len(ret.before[r].content) = 2
          /\ DOMAIN ret.before[r].content[1] # DOMAIN ret.before[r].content[2]

\* C8: serialization leaves the keyboard as it was, every callback cell still
\* holding its generator; each token it writes is the one get_callback_data
\* makes for the current chat, decodes in that chat, and raises
\* TamperedMessageError in every other chat, those of other serializations of
\* the keyboard included.
C8_Reuse ==
    /\ Serialized =>
          /\ rows = ret.before
          /\ \A x \in Positions(rows) :
                IsCallbackItem(ItemAt(rows, x)) =>
                    ItemAt(rows, x).callback_data.callable
          /\ ret.kind = "ok" =>
                \A k \in 1..Len(ret.keys) :
                    \A j \in 1..Len(ret.inline_keyboard[k]) :
                        IsCallbackItem(RowOf(ret.before, ret.keys[k])[j]) =>
                            ret.inline_keyboard[k][j].callback_data
                               = Lookup(Encoded,
                                    <<ret.chat,
                                      RowOf(ret.before, ret.keys[k])[j].callback_data.callback,
                                      RowOf(ret.before, ret.keys[k])[j].callback_data.data>>).token
    /\ \A x \in renders :
          /\ Lookup(Parsed, <<x.chat, x.token>>).kind = "ok"
          /\ \A c \in Chats \ {x.chat} :
                Lookup(Parsed, <<c, x.token>>).kind = "TamperedMessageError"

C8_Witness ==
    /\ Serialized
    /\ ret.kind = "ok"
    /\ \E x \in renders : x.chat = ret.chat /\ x.token \in tokens_of(ret)
    /\ \E y \in renders : y.chat # ret.chat

-----------------------------------------------------------------------------
(* Properties of the dispatcher, under SpecDispatch *)

Decoded == processed.op = "process" /\ processed.parse = "ok"

\* process called the hooks in order up to the first whose result is one of
\* these, that one only handled the update, and with no such hook it called
\* them all and logged the update as unclaimed
StopsAtFirst(signals) ==
    LET hooks == processed.hooks
        stops == {j \in 1..Len(hooks) : hooks[j].result \in signals}
        n == IF stops = {} THEN Len(hooks)
             ELSE CHOOSE j \in stops : \A m \in stops : j <= m
        logged(msg) == {e \in 1..Len(processed.log) : processed.log[e].msg = msg}
    IN  /\ processed.outcome = "returned"
        /\ Len(processed.calls) = n
        /\ \A j \in 1..n : processed.calls[j].hook = j
        /\ (stops = {}) <=> (logged("unclaimed") # {})
        /\ \A e \in logged("processed") : processed.log[e].hook = n /\ stops # {}
        /\ Cardinality(logged("processed")) <= 1

\* C9: when the data of an update does not decode for its chat, process
\* calls no hook, logs a warning and returns.
C9_DropsSilently ==
    (processed.op = "process" /\ processed.parse # "ok") =>
        /\ processed.calls = <<>>
        /\ processed.outcome = "returned"
        /\ \E e \in 1..Len(processed.log) : processed.log[e].level = "warn"

====
